---- MODULE Spec2Model ----
(***************************************************************************)
(* Model of toggl-to-s3-schedule: the Lambda handler (app.py) that logs in *)
(* to Toggl, fetches one day's time entries through TogglClient            *)
(* (toggl_client.py), serialises them to JSONL and uploads them to S3.     *)
(*                                                                         *)
(* Text is modelled as a sequence of one-character strings, so that        *)
(* json.dumps, json.loads, str.split and date.isoformat are computed       *)
(* character by character.                                                 *)
(***************************************************************************)
EXTENDS Integers, Sequences, FiniteSets, TLC

(***************************************************************************)
(* Bounds of the model.                                                    *)
(***************************************************************************)
\* most records in one time-entries response
MaxEntries == 2
\* most midnights that pass on the host
MaxTicks == 1

(***************************************************************************)
(* Text helpers.                                                           *)
(***************************************************************************)
Digits == <<"0", "1", "2", "3", "4", "5", "6", "7", "8", "9">>

DigitChars == {Digits[i] : i \in 1..10}

DigitVal(c) == (CHOOSE i \in 1..10 : Digits[i] = c) - 1

RECURSIVE NatToText(_)
NatToText(n) ==
  IF n < 10 THEN <<Digits[n + 1]>>
  ELSE NatToText(n \div 10) \o <<Digits[(n % 10) + 1]>>

\* "%0<width>d" % n
RECURSIVE ZeroPad(_, _)
ZeroPad(t, width) == IF Len(t) >= width THEN t ELSE ZeroPad(<<"0">> \o t, width)

RECURSIVE TextToNat(_, _)
TextToNat(t, acc) ==
  IF t = <<>> THEN acc ELSE TextToNat(Tail(t), acc * 10 + DigitVal(Head(t)))

\* str.join
RECURSIVE Join(_, _)
Join(sep, parts) ==
  IF parts = <<>> THEN <<>>
  ELSE IF Len(parts) = 1 THEN parts[1]
  ELSE parts[1] \o sep \o Join(sep, Tail(parts))

\* str.split(sep) for a one-character separator: the texts between
\* consecutive separators, always count(sep) + 1 parts
Split(t, sep) ==
  LET cuts == {i \in 1..Len(t) : t[i] = sep}
      \* the position of the k-th separator; 0 and Len(t) + 1 fence the text
      cut(k) ==
        IF k = 0 THEN 0
        ELSE IF k > Cardinality(cuts) THEN Len(t) + 1
        ELSE CHOOSE i \in cuts : Cardinality({j \in cuts : j < i}) = k - 1
  IN [k \in 1..(Cardinality(cuts) + 1) |-> SubSeq(t, cut(k - 1) + 1, cut(k) - 1)]

(***************************************************************************)
(* JSON values of the model: null, integers and strings; a dict is a       *)
(* sequence of key/value pairs with distinct keys, in insertion order.     *)
(***************************************************************************)
JNull == [t |-> "null", n |-> 0, s |-> <<>>]

JInt(n) == [t |-> "int", n |-> n, s |-> <<>>]

JStr(s) == [t |-> "str", n |-> 0, s |-> s]

Pair(k, v) == [k |-> k, v |-> v]

DictKeys(d) == {d[i].k : i \in 1..Len(d)}

HasKey(d, k) == k \in DictKeys(d)

\* d[k] for a key that is present
Lookup(d, k) == d[CHOOSE i \in 1..Len(d) : d[i].k = k].v

\* d.get(k): the value, or None when the key is absent
DictGet(d, k) == IF HasKey(d, k) THEN Lookup(d, k) ELSE JNull

\* dict equality in Python: same keys, same values, order ignored
DictEq(a, b) == {a[i] : i \in 1..Len(a)} = {b[i] : i \in 1..Len(b)}

(***************************************************************************)
(* json.dumps with its defaults: separators ", " and ": ", ensure_ascii,   *)
(* control characters of a string escaped.                                 *)
(***************************************************************************)
EscapeChar(c) ==
  CASE c = "\"" -> <<"\\", "\"">>
    [] c = "\\" -> <<"\\", "\\">>
    [] c = "\n" -> <<"\\", "n">>
    [] c = "\r" -> <<"\\", "r">>
    [] c = "\t" -> <<"\\", "t">>
    [] OTHER -> <<c>>

RECURSIVE EscapeText(_)
EscapeText(s) ==
  IF s = <<>> THEN <<>> ELSE EscapeChar(Head(s)) \o EscapeText(Tail(s))

DumpsStr(s) == <<"\"">> \o EscapeText(s) \o <<"\"">>

DumpsInt(n) == IF n < 0 THEN <<"-">> \o NatToText(0 - n) ELSE NatToText(n)

DumpsValue(v) ==
  CASE v.t = "null" -> <<"n", "u", "l", "l">>
    [] v.t = "int" -> DumpsInt(v.n)
    [] v.t = "str" -> DumpsStr(v.s)

DumpsPair(p) == DumpsStr(p.k) \o <<":", " ">> \o DumpsValue(p.v)

json_dumps(d) ==
  <<"{">> \o Join(<<",", " ">>, [i \in 1..Len(d) |-> DumpsPair(d[i])]) \o <<"}">>

(***************************************************************************)
(* json.loads: a strict JSON reader for the values above.  A result is     *)
(* [ok, val, pos]: whether the text parsed, the value, and the position    *)
(* after it.  A raw control character inside a string is rejected, as      *)
(* Python's strict decoder does.                                           *)
(***************************************************************************)
ParseFail == [ok |-> FALSE, val |-> <<>>, pos |-> 0]

ParseOk(v, i) == [ok |-> TRUE, val |-> v, pos |-> i]

WhiteSpace == {" ", "\n", "\r", "\t"}

RECURSIVE SkipWs(_, _)
SkipWs(t, i) ==
  IF i <= Len(t) /\ t[i] \in WhiteSpace THEN SkipWs(t, i + 1) ELSE i

Unescape(c) ==
  CASE c = "\"" -> "\""
    [] c = "\\" -> "\\"
    [] c = "/" -> "/"
    [] c = "n" -> "\n"
    [] c = "r" -> "\r"
    [] c = "t" -> "\t"
    [] OTHER -> ""

\* the characters of a string, from the one after the opening quote
RECURSIVE ParseStrBody(_, _, _)
ParseStrBody(t, i, acc) ==
  IF i > Len(t) THEN ParseFail
  ELSE IF t[i] = "\"" THEN ParseOk(acc, i + 1)
  ELSE IF t[i] = "\\" THEN
    IF i + 1 > Len(t) \/ Unescape(t[i + 1]) = "" THEN ParseFail
    ELSE ParseStrBody(t, i + 2, Append(acc, Unescape(t[i + 1])))
  ELSE IF t[i] \in {"\n", "\r", "\t"} THEN ParseFail
  ELSE ParseStrBody(t, i + 1, Append(acc, t[i]))

ParseStr(t, i) ==
  IF i <= Len(t) /\ t[i] = "\"" THEN ParseStrBody(t, i + 1, <<>>) ELSE ParseFail

RECURSIVE DigitsEnd(_, _)
DigitsEnd(t, i) ==
  IF i <= Len(t) /\ t[i] \in DigitChars THEN DigitsEnd(t, i + 1) ELSE i

ParseNat(t, i) ==
  LET j == DigitsEnd(t, i) IN
  IF j = i THEN ParseFail
  ELSE IF j > i + 1 /\ t[i] = "0" THEN ParseFail
  ELSE ParseOk(TextToNat(SubSeq(t, i, j - 1), 0), j)

ParseInt(t, i) ==
  IF i <= Len(t) /\ t[i] = "-" THEN
    LET r == ParseNat(t, i + 1) IN
    IF r.ok THEN ParseOk(JInt(0 - r.val), r.pos) ELSE ParseFail
  ELSE
    LET r == ParseNat(t, i) IN
    IF r.ok THEN ParseOk(JInt(r.val), r.pos) ELSE ParseFail

ParseNull(t, i) ==
  IF i + 3 <= Len(t) /\ SubSeq(t, i, i + 3) = <<"n", "u", "l", "l">>
  THEN ParseOk(JNull, i + 4) ELSE ParseFail

ParseValue(t, i) ==
  IF i > Len(t) THEN ParseFail
  ELSE IF t[i] = "\"" THEN
    LET r == ParseStr(t, i) IN
    IF r.ok THEN ParseOk(JStr(r.val), r.pos) ELSE ParseFail
  ELSE IF t[i] = "n" THEN ParseNull(t, i)
  ELSE ParseInt(t, i)

\* dict[k] = v: a repeated key keeps its place and takes the later value
DictSet(d, k, v) ==
  IF HasKey(d, k)
  THEN [i \in 1..Len(d) |-> IF d[i].k = k THEN Pair(k, v) ELSE d[i]]
  ELSE Append(d, Pair(k, v))

\* the members of an object, from the first key to the closing brace
RECURSIVE ParseMembers(_, _, _)
ParseMembers(t, i, acc) ==
  LET key == ParseStr(t, SkipWs(t, i)) IN
  IF ~key.ok THEN ParseFail
  ELSE
    LET c == SkipWs(t, key.pos) IN
    IF c > Len(t) \/ t[c] # ":" THEN ParseFail
    ELSE
      LET val == ParseValue(t, SkipWs(t, c + 1)) IN
      IF ~val.ok THEN ParseFail
      ELSE
        LET e == SkipWs(t, val.pos)
            d == DictSet(acc, key.val, val.val)
        IN
        IF e > Len(t) THEN ParseFail
        ELSE IF t[e] = "," THEN ParseMembers(t, e + 1, d)
        ELSE IF t[e] = "}" THEN ParseOk(d, e + 1)
        ELSE ParseFail

ParseObject(t, i) ==
  IF i > Len(t) \/ t[i] # "{" THEN ParseFail
  ELSE
    LET j == SkipWs(t, i + 1) IN
    IF j <= Len(t) /\ t[j] = "}" THEN ParseOk(<<>>, j + 1)
    ELSE ParseMembers(t, j, <<>>)

\* json.loads of a text that is expected to hold one JSON object:
\* [ok |-> whether it decodes to an object, val |-> the dict]
json_loads(t) ==
  LET r == ParseObject(t, SkipWs(t, 1)) IN
  IF r.ok /\ SkipWs(t, r.pos) = Len(t) + 1
  THEN [ok |-> TRUE, val |-> r.val]
  ELSE [ok |-> FALSE, val |-> <<>>]

(***************************************************************************)
(* datetime.date: a proleptic Gregorian calendar date between date.min     *)
(* and date.max.                                                           *)
(***************************************************************************)
MINYEAR == 1

MAXYEAR == 9999

Date(y, m, d) == [y |-> y, m |-> m, d |-> d]

IsLeap(y) == y % 4 = 0 /\ (y % 100 # 0 \/ y % 400 = 0)

DaysInMonth(y, m) ==
  IF m = 2 THEN (IF IsLeap(y) THEN 29 ELSE 28)
  ELSE IF m \in {4, 6, 9, 11} THEN 30
  ELSE 31

IsDate(x) ==
  /\ x.y \in MINYEAR..MAXYEAR
  /\ x.m \in 1..12
  /\ x.d \in 1..DaysInMonth(x.y, x.m)

DateMax == Date(MAXYEAR, 12, 31)

\* date.isoformat(): "%04d-%02d-%02d"
isoformat(x) ==
  ZeroPad(NatToText(x.y), 4) \o <<"-">> \o ZeroPad(NatToText(x.m), 2)
    \o <<"-">> \o ZeroPad(NatToText(x.d), 2)

\* d + timedelta(days=1): the next calendar day; past date.max the
\* addition raises OverflowError
Overflows(x) == x = DateMax

AddOneDay(x) ==
  IF x.d < DaysInMonth(x.y, x.m) THEN Date(x.y, x.m, x.d + 1)
  ELSE IF x.m < 12 THEN Date(x.y, x.m + 1, 1)
  ELSE Date(x.y + 1, 1, 1)

(***************************************************************************)
(* Names that appear in the program text.                                  *)
(***************************************************************************)
K_id == <<"i", "d">>

K_project_id == <<"p", "r", "o", "j", "e", "c", "t", "_", "i", "d">>

K_description == <<"d", "e", "s", "c", "r", "i", "p", "t", "i", "o", "n">>

K_start == <<"s", "t", "a", "r", "t">>

K_stop == <<"s", "t", "o", "p">>

K_duration == <<"d", "u", "r", "a", "t", "i", "o", "n">>

\* a field of the API's records that the client does not keep
K_project_name == <<"p", "r", "o", "j", "e", "c", "t", "_", "n", "a", "m", "e">>

K_entries_uploaded ==
  <<"e", "n", "t", "r", "i", "e", "s", "_", "u", "p", "l", "o", "a", "d", "e", "d">>

K_s3_key == <<"s", "3", "_", "k", "e", "y">>

KeySuffix ==
  <<"/", "t", "i", "m", "e", "_", "e", "n", "t", "r", "i", "e", "s",
    ".", "j", "s", "o", "n", "l">>

AUTH_ENDPOINT == "https://accounts.toggl.com/api/sessions"

TIME_ENTRIES_ENDPOINT == "https://api.track.toggl.com/api/v9/me/time_entries"

\* the f-string's fixed parts; the workspace id travels in the request's ws
PROJECTS_ENDPOINT == "https://api.track.toggl.com/api/v9/workspaces/{}/projects"

EnvNames == {"TOGGL_WORKSPACE", "TOGGL_EMAIL", "TOGGL_PASSWORD", "S3_BUCKET_NAME"}

(***************************************************************************)
(* The inputs of an invocation.                                            *)
(***************************************************************************)
Buckets == {"bucket-a", "bucket-b"}

\* os.environ: a mapping that may lack any of the names
Environs ==
  {[n \in S |-> CASE n = "TOGGL_WORKSPACE" -> "ws_123"
                  [] n = "TOGGL_EMAIL" -> "user@example.com"
                  [] n = "TOGGL_PASSWORD" -> "secret"
                  [] n = "S3_BUCKET_NAME" -> b] : S \in SUBSET EnvNames, b \in Buckets}

\* the host's date when the first invocation starts
StartDates ==
  {Date(2026, 2, 12), Date(2024, 2, 28), Date(2026, 2, 28), Date(2026, 12, 31),
   DateMax}

\* description texts that json.dumps has to escape: a line break inside, a
\* quote and a backslash, a backslash followed by the letter n
Descriptions == {<<"a", "\n", "b">>, <<"\"", "\\">>, <<"\\", "n">>}

PlainText == <<"a">>

StartText == <<"0", "8", ":", "0", "0">>

StopText == <<"0", "9", ":", "3", "0">>

\* records as the time-entries endpoint returns them: project_id set, null
\* or absent; a running entry has a null stop and a negative duration; a
\* field the client does not keep may be present
RawSet(desc) ==
  <<Pair(K_id, JInt(1001)), Pair(K_project_id, JInt(42)),
    Pair(K_description, JStr(desc)), Pair(K_start, JStr(StartText)),
    Pair(K_stop, JStr(StopText)), Pair(K_duration, JInt(5400)),
    Pair(K_project_name, JStr(<<"P">>))>>

RawNull(desc) ==
  <<Pair(K_id, JInt(1002)), Pair(K_project_id, JNull),
    Pair(K_description, JStr(desc)), Pair(K_start, JStr(StartText)),
    Pair(K_stop, JNull), Pair(K_duration, JInt(0 - 1))>>

RawAbsent(desc) ==
  <<Pair(K_project_name, JStr(<<"P">>)), Pair(K_id, JInt(7)),
    Pair(K_description, JStr(desc)), Pair(K_start, JStr(StartText)),
    Pair(K_stop, JStr(StopText)), Pair(K_duration, JInt(0))>>

\* a record that lacks a field the client reads with entry[...]
RawBroken ==
  <<Pair(K_id, JInt(9)), Pair(K_project_id, JInt(42)),
    Pair(K_start, JStr(StartText)), Pair(K_stop, JStr(StopText)),
    Pair(K_duration, JInt(60))>>

RawRecords ==
  {RawSet(x) : x \in Descriptions}
    \cup {RawNull(PlainText), RawAbsent(PlainText), RawBroken}

RECURSIVE SeqsUpTo(_, _)
SeqsUpTo(S, n) ==
  IF n = 0 THEN {<<>>}
  ELSE LET shorter == SeqsUpTo(S, n - 1) IN
       shorter \cup {Append(q, x) : q \in shorter, x \in S}

\* the bodies resp.json() can hold
Responses == SeqsUpTo(RawRecords, MaxEntries)

\* the bodies of a day with no entry, one entry, or one broken record
QuietResponses == {<<>>, <<RawNull(PlainText)>>, <<RawBroken>>}

\* HTTP status codes of the model: one success, one failure
StatusCodes == {200, 401}

(***************************************************************************)
(* TogglClient (toggl_client.py).                                          *)
(***************************************************************************)
NoParams == [start_date |-> <<>>, end_date |-> <<>>]

Request(method, url, ws, params) ==
  [method |-> method, url |-> url, ws |-> ws, params |-> params]

\* resp.raise_for_status(): raises HTTPError for a 4xx or 5xx status
RaisesForStatus(status) == status >= 400

\* _login: one POST to the auth endpoint
LoginRequests == <<Request("POST", AUTH_ENDPOINT, "", NoParams)>>

\* get_project_map: one GET to the workspace's projects endpoint
ProjectMapRequests(ws) == <<Request("GET", PROJECTS_ENDPOINT, ws, NoParams)>>

\* variant: the end of the range is not moved to the next day
TimeEntriesParams_SameDay(d) ==
  [start_date |-> isoformat(d), end_date |-> isoformat(d)]

\* the query parameters get_time_entries computes for day d
TimeEntriesParams(d) ==
  [start_date |-> isoformat(d), end_date |-> isoformat(AddOneDay(d))]

\* variant: project names are resolved before the entries are fetched
TimeEntriesRequests_ViaProjectMap(ws, d) ==
  ProjectMapRequests(ws)
    \o <<Request("GET", TIME_ENTRIES_ENDPOINT, "", TimeEntriesParams(d))>>

\* the requests get_time_entries sends for day d
TimeEntriesRequests(ws, d) ==
  <<Request("GET", TIME_ENTRIES_ENDPOINT, "", TimeEntriesParams(d))>>

RequiredKeys == {K_id, K_description, K_start, K_stop, K_duration}

\* entry["id"], entry["description"], ... raise KeyError on a missing field
RaisesKeyError(entry) == ~(RequiredKeys \subseteq DictKeys(entry))

\* variant: the entry carries the project's name in place of its id
NormaliseEntry_Named(entry) ==
  <<Pair(K_id, Lookup(entry, K_id)),
    Pair(K_project_name, DictGet(entry, K_project_name)),
    Pair(K_description, Lookup(entry, K_description)),
    Pair(K_start, Lookup(entry, K_start)),
    Pair(K_stop, Lookup(entry, K_stop)),
    Pair(K_duration, Lookup(entry, K_duration))>>

\* the dict built for one raw record
NormaliseEntry(entry) ==
  <<Pair(K_id, Lookup(entry, K_id)),
    Pair(K_project_id, DictGet(entry, K_project_id)),
    Pair(K_description, Lookup(entry, K_description)),
    Pair(K_start, Lookup(entry, K_start)),
    Pair(K_stop, Lookup(entry, K_stop)),
    Pair(K_duration, Lookup(entry, K_duration))>>

\* the list comprehension over resp.json()
NormaliseAll(data) == [i \in 1..Len(data) |-> NormaliseEntry(data[i])]

(***************************************************************************)
(* app.py.                                                                 *)
(***************************************************************************)
\* variant: every record is followed by a line break
serialise_entries_to_jsonl_Terminated(es) ==
  IF es = <<>> THEN <<>>
  ELSE Join(<<>>, [i \in 1..Len(es) |-> json_dumps(es[i]) \o <<"\n">>])

serialise_entries_to_jsonl(es) ==
  IF es = <<>> THEN <<>>
  ELSE Join(<<"\n">>, [i \in 1..Len(es) |-> json_dumps(es[i])])

\* f"{today.isoformat()}/time_entries.jsonl"
S3Key(d) == isoformat(d) \o KeySuffix

PutCall(bucket, key, body) ==
  [Bucket |-> bucket, Key |-> key, Body |-> body,
   ContentType |-> "application/jsonl"]

\* S3 as put_object sees it: a put replaces the object under the same
\* bucket name and key, or adds one
NoObjects == [k \in {} |-> <<>>]

S3Put(st, call) ==
  [k \in DOMAIN st \cup {<<call.Bucket, call.Key>>} |->
     IF k = <<call.Bucket, call.Key>>
     THEN [Body |-> call.Body, ContentType |-> call.ContentType]
     ELSE st[k]]

NoResult == [statusCode |-> 0, body |-> <<>>]

\* variant: the count is taken from the lines of the serialised text
HandlerResult_CountsLines(es, key) ==
  [statusCode |-> 200,
   body |-> json_dumps(
     <<Pair(K_entries_uploaded,
            JInt(Len(Split(serialise_entries_to_jsonl(es), "\n")))),
       Pair(K_s3_key, JStr(key))>>)]

HandlerResult(es, key) ==
  [statusCode |-> 200,
   body |-> json_dumps(<<Pair(K_entries_uploaded, JInt(Len(es))),
                         Pair(K_s3_key, JStr(key))>>)]

NoConfig == [workspace |-> "", email |-> "", password |-> "", bucket |-> ""]

VARIABLES
  pc,         \* where the invocation stands
  environ,    \* os.environ
  clock,      \* the host's local date
  ticks,      \* midnights passed on the host
  config,     \* the four values read from the environment
  today,      \* the local variable today
  session,    \* the requests.Session of the client: none, open, closed
  closes,     \* calls of session.close()
  requests,   \* HTTP requests sent in this invocation
  replies,    \* the status code each request was answered with
  response,   \* the body of the time-entries response
  entries,    \* the local variable entries
  exc,        \* the exception in flight, or none
  jsonl_body, \* the local variable jsonl_body
  s3_key,     \* the local variable s3_key
  puts,       \* put_object calls made in this invocation
  result,     \* what the invocation returned
  store,      \* the objects held by S3, by bucket name and key
  store0      \* the objects S3 held when the invocation started

vars ==
  <<pc, environ, clock, ticks, config, today, session, closes, requests,
    replies, response, entries, exc, jsonl_body, s3_key, puts, result,
    store, store0>>

Running == {"config", "client", "today", "construct", "fetch", "exit",
            "serialise", "put", "return"}

Ended == {"done", "failed"}

Locals(cfg, t, ss, cl, rq, rp, rs, es, e, body, key, ps, res) ==
  /\ config' = cfg
  /\ today' = t
  /\ session' = ss
  /\ closes' = cl
  /\ requests' = rq
  /\ replies' = rp
  /\ response' = rs
  /\ entries' = es
  /\ exc' = e
  /\ jsonl_body' = body
  /\ s3_key' = key
  /\ puts' = ps
  /\ result' = res

Init ==
  /\ pc = "idle"
  /\ environ \in Environs
  /\ clock \in StartDates
  /\ ticks = 0
  /\ config = NoConfig
  /\ today = clock
  /\ session = "none"
  /\ closes = 0
  /\ requests = <<>>
  /\ replies = <<>>
  /\ response = <<>>
  /\ entries = <<>>
  /\ exc = "none"
  /\ jsonl_body = <<>>
  /\ s3_key = <<>>
  /\ puts = <<>>
  /\ result = NoResult
  /\ store = NoObjects
  /\ store0 = NoObjects

\* the trigger fires for the first time
Invoke ==
  /\ pc = "idle"
  /\ pc' = "config"
  /\ UNCHANGED <<environ, clock, ticks, store, store0>>
  /\ Locals(NoConfig, clock, "none", 0, <<>>, <<>>, <<>>, <<>>, "none", <<>>,
            <<>>, <<>>, NoResult)

\* the trigger fires again: a fresh invocation in the same deployment, with
\* nothing kept from the last one but the environment, the clock and what
\* S3 holds
Reinvoke ==
  /\ pc \in Ended
  /\ pc' = "config"
  /\ store0' = store
  /\ UNCHANGED <<environ, clock, ticks, store>>
  /\ Locals(NoConfig, clock, "none", 0, <<>>, <<>>, <<>>, <<>>, "none", <<>>,
            <<>>, <<>>, NoResult)

\* midnight passes on the host while the invocation runs
Tick ==
  /\ pc \in Running
  /\ ticks < MaxTicks
  /\ clock # DateMax
  /\ clock' = AddOneDay(clock)
  /\ ticks' = ticks + 1
  /\ UNCHANGED <<pc, environ, config, today, session, closes, requests, replies,
                 response, entries, exc, jsonl_body, s3_key, puts, result, store, store0>>

\* variant: the bucket name is looked up with a default
ReadConfig_LazyBucket ==
  /\ pc = "config"
  /\ IF (EnvNames \ {"S3_BUCKET_NAME"}) \subseteq DOMAIN environ
     THEN /\ config' = [workspace |-> environ["TOGGL_WORKSPACE"],
                        email |-> environ["TOGGL_EMAIL"],
                        password |-> environ["TOGGL_PASSWORD"],
                        bucket |-> IF "S3_BUCKET_NAME" \in DOMAIN environ
                                   THEN environ["S3_BUCKET_NAME"] ELSE ""]
          /\ pc' = "client"
          /\ exc' = exc
     ELSE /\ config' = config
          /\ pc' = "failed"
          /\ exc' = "KeyError"
  /\ UNCHANGED <<environ, clock, ticks, today, session, closes, requests,
                 replies, response, entries, jsonl_body, s3_key, puts, result, store, store0>>

\* app.py 32-35: os.environ[...] four times; a missing name raises KeyError
ReadConfig ==
  /\ pc = "config"
  /\ IF EnvNames \subseteq DOMAIN environ
     THEN /\ config' = [workspace |-> environ["TOGGL_WORKSPACE"],
                        email |-> environ["TOGGL_EMAIL"],
                        password |-> environ["TOGGL_PASSWORD"],
                        bucket |-> environ["S3_BUCKET_NAME"]]
          /\ pc' = "client"
          /\ exc' = exc
     ELSE /\ config' = config
          /\ pc' = "failed"
          /\ exc' = "KeyError"
  /\ UNCHANGED <<environ, clock, ticks, today, session, closes, requests,
                 replies, response, entries, jsonl_body, s3_key, puts, result, store, store0>>

\* app.py 37: the injected client or boto3.client("s3"); put_object calls
\* are recorded in puts whichever client receives them
MakeS3Client ==
  /\ pc = "client"
  /\ pc' = "today"
  /\ UNCHANGED <<environ, clock, ticks, config, today, session, closes,
                 requests, replies, response, entries, exc, jsonl_body, s3_key, puts,
                 result, store, store0>>

\* app.py 39: today = date.today()
ReadToday ==
  /\ pc = "today"
  /\ today' = clock
  /\ pc' = "construct"
  /\ UNCHANGED <<environ, clock, ticks, config, session, closes, requests, replies,
                 response, entries, exc, jsonl_body, s3_key, puts, result, store, store0>>

\* variant: the login is tried a second time when it is refused, and the
\* client is used whatever the second answer is
Construct_Retrying ==
  /\ pc = "construct"
  /\ session' = "open"
  /\ \E status \in StatusCodes :
       IF RaisesForStatus(status)
       THEN /\ requests' = requests \o LoginRequests \o LoginRequests
            /\ \E second \in StatusCodes :
                 replies' = replies \o <<status, second>>
       ELSE /\ requests' = requests \o LoginRequests
            /\ replies' = Append(replies, status)
  /\ exc' = exc
  /\ pc' = "fetch"
  /\ UNCHANGED <<environ, clock, ticks, config, today, closes, response,
                 entries, jsonl_body, s3_key, puts, result, store, store0>>

\* app.py 41, toggl_client.py 9-16 and 26-29: TogglClient(...) opens a
\* session and logs in; when the login raises, the with block is never
\* entered, so __exit__ does not run
Construct ==
  /\ pc = "construct"
  /\ session' = "open"
  /\ requests' = requests \o LoginRequests
  /\ \E status \in StatusCodes :
       /\ replies' = Append(replies, status)
       /\ IF RaisesForStatus(status)
          THEN exc' = "HTTPError" /\ pc' = "failed"
          ELSE exc' = exc /\ pc' = "fetch"
  /\ UNCHANGED <<environ, clock, ticks, config, today, closes, response,
                 entries, jsonl_body, s3_key, puts, result, store, store0>>

\* app.py 42, toggl_client.py 41-68: toggl.get_time_entries(today), with the
\* body of the response drawn from bodies
FetchFrom(bodies) ==
  /\ pc = "fetch"
  /\ pc' = "exit"
  /\ IF Overflows(today)
     THEN /\ exc' = "OverflowError"
          /\ UNCHANGED <<requests, replies, response, entries>>
     ELSE /\ requests' = requests \o TimeEntriesRequests(config.workspace, today)
          /\ \E status \in StatusCodes :
               /\ replies' = Append(replies, status)
               /\ IF RaisesForStatus(status)
                  THEN /\ exc' = "HTTPError"
                       /\ UNCHANGED <<response, entries>>
                  ELSE \E data \in bodies :
                         /\ response' = data
                         /\ IF \E i \in 1..Len(data) : RaisesKeyError(data[i])
                            THEN exc' = "KeyError" /\ entries' = entries
                            ELSE exc' = exc /\ entries' = NormaliseAll(data)
  /\ UNCHANGED <<environ, clock, ticks, config, today, session, closes,
                 jsonl_body, s3_key, puts, result, store, store0>>

GetTimeEntries == FetchFrom(Responses)

\* the same call in a deployment whose days hold at most one entry
GetTimeEntriesOfQuietDay == FetchFrom(QuietResponses)

\* variant: __exit__ leaves the session as it is
ExitScope_NotClosing ==
  /\ pc = "exit"
  /\ pc' = IF exc = "none" THEN "serialise" ELSE "failed"
  /\ UNCHANGED <<environ, clock, ticks, config, today, session, closes,
                 requests, replies, response, entries, exc, jsonl_body, s3_key,
                 puts, result, store, store0>>

\* variant: __exit__ returns a true value, which suppresses the exception
ExitScope_Suppressing ==
  /\ pc = "exit"
  /\ session' = "closed"
  /\ closes' = closes + 1
  /\ pc' = "serialise"
  /\ UNCHANGED <<environ, clock, ticks, config, today, requests, replies,
                 response, entries, exc, jsonl_body, s3_key, puts, result, store, store0>>

\* toggl_client.py 18-24: leaving the with block runs __exit__, which closes
\* the session and returns None, so an exception in flight propagates
ExitScope ==
  /\ pc = "exit"
  /\ session' = "closed"
  /\ closes' = closes + 1
  /\ pc' = IF exc = "none" THEN "serialise" ELSE "failed"
  /\ UNCHANGED <<environ, clock, ticks, config, today, requests, replies, response,
                 entries, exc, jsonl_body, s3_key, puts, result, store, store0>>

\* variant: the key is built from a second reading of the clock
Serialise_RereadsClock ==
  /\ pc = "serialise"
  /\ jsonl_body' = serialise_entries_to_jsonl(entries)
  /\ s3_key' = S3Key(clock)
  /\ pc' = "put"
  /\ UNCHANGED <<environ, clock, ticks, config, today, session, closes,
                 requests, replies, response, entries, exc, puts, result, store, store0>>

\* variant: the key also names how many entries the object holds
Serialise_KeyPerBody ==
  /\ pc = "serialise"
  /\ jsonl_body' = serialise_entries_to_jsonl(entries)
  /\ s3_key' = isoformat(today) \o <<"/">> \o NatToText(Len(entries)) \o KeySuffix
  /\ pc' = "put"
  /\ UNCHANGED <<environ, clock, ticks, config, today, session, closes,
                 requests, replies, response, entries, exc, puts, result,
                 store, store0>>

\* app.py 44-45
Serialise ==
  /\ pc = "serialise"
  /\ jsonl_body' = serialise_entries_to_jsonl(entries)
  /\ s3_key' = S3Key(today)
  /\ pc' = "put"
  /\ UNCHANGED <<environ, clock, ticks, config, today, session, closes,
                 requests, replies, response, entries, exc, puts, result, store, store0>>

\* variant: nothing is uploaded for a day without entries
PutObject_SkipEmpty ==
  /\ pc = "put"
  /\ puts' = IF entries = <<>> THEN puts
             ELSE Append(puts, PutCall(config.bucket, s3_key, jsonl_body))
  /\ \E ok \in BOOLEAN :
       IF ok
       THEN /\ exc' = exc /\ pc' = "return"
            /\ store' = IF entries = <<>> THEN store
                        ELSE S3Put(store, PutCall(config.bucket, s3_key, jsonl_body))
       ELSE exc' = "ClientError" /\ pc' = "failed" /\ store' = store
  /\ UNCHANGED <<environ, clock, ticks, config, today, session, closes,
                 requests, replies, response, entries, jsonl_body, s3_key, result, store0>>

\* app.py 47-52: client.put_object(...); the call may raise, and S3 then
\* holds what it held before
PutObject ==
  /\ pc = "put"
  /\ puts' = Append(puts, PutCall(config.bucket, s3_key, jsonl_body))
  /\ \E ok \in BOOLEAN :
       IF ok
       THEN /\ exc' = exc /\ pc' = "return"
            /\ store' = S3Put(store, PutCall(config.bucket, s3_key, jsonl_body))
       ELSE exc' = "ClientError" /\ pc' = "failed" /\ store' = store
  /\ UNCHANGED <<environ, clock, ticks, config, today, session, closes,
                 requests, replies, response, entries, jsonl_body, s3_key, result, store0>>

\* app.py 54-62
Return ==
  /\ pc = "return"
  /\ result' = HandlerResult(entries, s3_key)
  /\ pc' = "done"
  /\ UNCHANGED <<environ, clock, ticks, config, today, session, closes,
                 requests, replies, response, entries, exc, jsonl_body, s3_key, puts, store, store0>>

Next ==
  \/ Invoke
  \/ Tick
  \/ ReadConfig
  \/ MakeS3Client
  \/ ReadToday
  \/ Construct
  \/ GetTimeEntries
  \/ ExitScope
  \/ Serialise
  \/ PutObject
  \/ Return

Spec == Init /\ [][Next]_vars

\* the deployment over many invocations, on days with at most one entry
NextStore ==
  \/ Invoke
  \/ Reinvoke
  \/ Tick
  \/ ReadConfig
  \/ MakeS3Client
  \/ ReadToday
  \/ Construct
  \/ GetTimeEntriesOfQuietDay
  \/ ExitScope
  \/ Serialise
  \/ PutObject
  \/ Return

SpecStore == Init /\ [][NextStore]_vars

TypeOK ==
  /\ pc \in {"idle"} \cup Running \cup Ended
  /\ session \in {"none", "open", "closed"}
  /\ IsDate(clock) /\ IsDate(today)
  /\ Len(entries) <= MaxEntries

(***************************************************************************)
(* Vocabulary of the properties.                                           *)
(***************************************************************************)
ConfigMissing == ~(EnvNames \subseteq DOMAIN environ)

LoginAnswered == Len(replies) >= 1

LoginFailed == LoginAnswered /\ replies[1] >= 400

FetchAnswered == Len(replies) >= 2

FetchFailed == FetchAnswered /\ replies[2] >= 400

\* get_time_entries has been called and has raised
FetchRaised == pc \in {"exit", "failed"} /\ exc \in {"HTTPError", "KeyError", "OverflowError"}
                 /\ LoginAnswered /\ ~LoginFailed

\* get_time_entries has been called and has returned a list
FetchReturned ==
  pc \in {"exit", "serialise", "put", "return", "done", "failed"}
    /\ exc \in {"none", "ClientError"} /\ FetchAnswered

\* the requests sent to the time-entries endpoint
TimeEntriesGets ==
  {i \in 1..Len(requests) :
     requests[i].method = "GET" /\ requests[i].url = TIME_ENTRIES_ENDPOINT}

\* a text of the form YYYY-MM-DD, read back as a date
IsIsoText(t) ==
  /\ Len(t) = 10
  /\ t[5] = "-" /\ t[8] = "-"
  /\ \A i \in {1, 2, 3, 4, 6, 7, 9, 10} : t[i] \in DigitChars

ParseIso(t) ==
  Date(TextToNat(SubSeq(t, 1, 4), 0), TextToNat(SubSeq(t, 6, 7), 0),
       TextToNat(SubSeq(t, 9, 10), 0))

\* days from 0001-01-01, counted with the Gregorian leap-year rule
RECURSIVE DaysBeforeMonth(_, _)
DaysBeforeMonth(y, m) ==
  IF m = 1 THEN 0 ELSE DaysBeforeMonth(y, m - 1) + DaysInMonth(y, m - 1)

Ordinal(x) ==
  LET p == x.y - 1 IN
  p * 365 + (p \div 4) - (p \div 100) + (p \div 400) + DaysBeforeMonth(x.y, x.m) + x.d

\* the lines of a text and the records they decode to
Lines(body) == Split(body, "\n")

LineDecodesTo(line, entry) ==
  LET r == json_loads(line) IN r.ok /\ DictEq(r.val, entry)

\* the number of records a JSONL body holds
RecordCount(body) == IF body = <<>> THEN 0 ELSE Len(Lines(body))

ResultBody == json_loads(result.body)

SixKeys == {K_id, K_project_id, K_description, K_start, K_stop, K_duration}

(***************************************************************************)
(* C1 (does not hold: the session leaks when the login fails).  Whenever   *)
(* an invocation has ended, a session that the client's constructor        *)
(* created has been closed, whether the handler returned, the login        *)
(* raised inside the constructor, or the fetch raised.                     *)
(***************************************************************************)
C1_SessionClosedAtEnd == pc \in Ended => session # "open"

(***************************************************************************)
(* C2.  put_object is called only when the login and the fetch both        *)
(* succeeded, and its body then decodes to all the fetched entries; when   *)
(* configuration, login or fetch fails, no put_object call is made and no  *)
(* result is returned.                                                     *)
(***************************************************************************)
C2_NoPartialSuccess ==
  /\ puts # <<>> =>
       /\ ~ConfigMissing
       /\ replies = <<200, 200>>
       /\ FetchReturned
       /\ Len(entries) = Len(response)
       /\ \A i \in 1..Len(puts) :
            /\ RecordCount(puts[i].Body) = Len(entries)
            /\ \A j \in 1..Len(entries) :
                 LineDecodesTo(Lines(puts[i].Body)[j], entries[j])
  /\ (ConfigMissing \/ LoginFailed \/ FetchFailed \/ FetchRaised) =>
       puts = <<>> /\ result = NoResult

C2_Witness ==
  pc = "done" /\ Len(puts) = 1 /\ Len(entries) = 2 /\ replies = <<200, 200>>

(***************************************************************************)
(* C3.  When one of the four configuration values is missing, the          *)
(* invocation fails with a KeyError before any network call: no request    *)
(* is sent to Toggl, no put_object is issued and the handler does not get  *)
(* past reading its configuration.                                         *)
(***************************************************************************)
C3_ConfigFirst ==
  ConfigMissing =>
    /\ requests = <<>>
    /\ puts = <<>>
    /\ session = "none"
    /\ pc \in {"idle", "config", "failed"}
    /\ pc = "failed" => exc = "KeyError"

C3_Witness ==
  pc = "failed" /\ exc = "KeyError"
    /\ DOMAIN environ = EnvNames \ {"S3_BUCKET_NAME"}

(***************************************************************************)
(* C4.  An invocation that returned a result has called put_object         *)
(* exactly once; when the fetch returned no entries, the uploaded body is  *)
(* the empty text and the result reports entries_uploaded = 0.             *)
(***************************************************************************)
C4_OneUploadPerResult ==
  result # NoResult =>
    /\ Len(puts) = 1
    /\ entries = <<>> =>
         /\ puts[1].Body = <<>>
         /\ ResultBody.ok
         /\ DictGet(ResultBody.val, K_entries_uploaded) = JInt(0)

C4_Witness == pc = "done" /\ result # NoResult /\ entries = <<>> /\ response = <<>>

(***************************************************************************)
(* C5 as stated (does not hold for the empty sequence).  For every entry   *)
(* sequence, the empty one included, the serialised text splits on the     *)
(* newline character into exactly len(entries) lines, and line i decodes   *)
(* to a JSON object equal to record i.                                     *)
(***************************************************************************)
C5_Original ==
  pc \in {"put", "return", "done"} =>
    /\ Len(Lines(jsonl_body)) = Len(entries)
    /\ \A i \in 1..Len(entries) : LineDecodesTo(Lines(jsonl_body)[i], entries[i])

(***************************************************************************)
(* C5 amended.  For every non-empty entry sequence the serialised text     *)
(* splits on the newline character into exactly len(entries) lines and     *)
(* line i decodes to a JSON object equal to record i; the empty sequence   *)
(* serialises to the empty text, which splits into one empty line.         *)
(***************************************************************************)
C5_Amended ==
  pc \in {"put", "return", "done"} =>
    IF entries = <<>>
    THEN jsonl_body = <<>> /\ Lines(jsonl_body) = << <<>> >>
    ELSE /\ Len(Lines(jsonl_body)) = Len(entries)
         /\ \A i \in 1..Len(entries) :
              LineDecodesTo(Lines(jsonl_body)[i], entries[i])

C5_Witness ==
  /\ pc = "put"
  /\ Len(entries) = 2
  /\ Lookup(entries[1], K_description) = JStr(<<"a", "\n", "b">>)
  /\ Lookup(entries[2], K_description) = JStr(<<"\\", "n">>)

(***************************************************************************)
(* C6.  Every entry get_time_entries returns has exactly the keys id,      *)
(* project_id, description, start, stop and duration; the other five       *)
(* carry the raw record's values, and project_id is the raw value, or      *)
(* null when the raw record has no project_id; it is never missing and     *)
(* never the project's name.                                               *)
(***************************************************************************)
C6_NormalisedShape ==
  FetchReturned =>
    /\ Len(entries) = Len(response)
    /\ \A i \in 1..Len(entries) :
         /\ DictKeys(entries[i]) = SixKeys
         /\ Len(entries[i]) = 6
         /\ \A k \in SixKeys \ {K_project_id} :
              Lookup(entries[i], k) = Lookup(response[i], k)
         /\ Lookup(entries[i], K_project_id) =
              (IF K_project_id \in DictKeys(response[i])
               THEN Lookup(response[i], K_project_id) ELSE JNull)
         /\ K_project_name \in DictKeys(response[i]) =>
              Lookup(entries[i], K_project_id) # Lookup(response[i], K_project_name)

C6_Witness ==
  /\ pc = "exit" /\ exc = "none"
  /\ \E i \in 1..Len(response) :
       /\ K_project_id \notin DictKeys(response[i])
       /\ K_project_name \in DictKeys(response[i])
       /\ Lookup(entries[i], K_project_id) = JNull

(***************************************************************************)
(* C7.  No request is ever sent to the projects endpoint: neither the      *)
(* handler nor get_time_entries calls get_project_map.                     *)
(***************************************************************************)
C7_NoProjectMap ==
  \A i \in 1..Len(requests) : requests[i].url # PROJECTS_ENDPOINT

C7_Witness == pc = "exit" /\ exc = "none" /\ Len(requests) = 2 /\ Len(entries) > 0

(***************************************************************************)
(* C8 as stated (does not hold for date.max).  For every date D, once      *)
(* get_time_entries(D) has been called, exactly one GET has been sent to   *)
(* the time-entries endpoint, with start_date = D and end_date = D + 1     *)
(* day, both as YYYY-MM-DD.                                                *)
(***************************************************************************)
DateParamsOf(r, d) ==
  /\ IsIsoText(r.params.start_date)
  /\ IsIsoText(r.params.end_date)
  /\ ParseIso(r.params.start_date) = d
  /\ IsDate(ParseIso(r.params.end_date))
  /\ Ordinal(ParseIso(r.params.end_date)) = Ordinal(d) + 1

C8_Original ==
  pc = "exit" =>
    /\ Cardinality(TimeEntriesGets) = 1
    /\ \A i \in TimeEntriesGets : DateParamsOf(requests[i], today)

(***************************************************************************)
(* C8 amended.  For every date D before date.max (9999-12-31), once        *)
(* get_time_entries(D) has been called, exactly one GET has been sent to   *)
(* the time-entries endpoint, with start_date = D and end_date = D + 1     *)
(* day, both as YYYY-MM-DD; for D = date.max the call raises               *)
(* OverflowError and sends no request.                                     *)
(***************************************************************************)
C8_Amended ==
  pc = "exit" =>
    IF today = DateMax
    THEN TimeEntriesGets = {} /\ exc = "OverflowError"
    ELSE /\ Cardinality(TimeEntriesGets) = 1
         /\ \A i \in TimeEntriesGets : DateParamsOf(requests[i], today)

C8_Witness ==
  /\ pc = "exit"
  /\ today = Date(2026, 12, 31)
  /\ Cardinality(TimeEntriesGets) = 1
  /\ requests[2].params.end_date = <<"2", "0", "2", "7", "-", "0", "1", "-", "0", "1">>

(***************************************************************************)
(* C9.  The date of the fetch and the date of the upload are the same      *)
(* reading of the clock: every put_object call has the key                 *)
(* "<D as YYYY-MM-DD>/time_entries.jsonl" where D is the date the          *)
(* time-entries request was made for, the bucket read from                 *)
(* S3_BUCKET_NAME, and the content type application/jsonl.                 *)
(***************************************************************************)
C9_SameDay ==
  \A i \in 1..Len(puts) :
    /\ Len(puts[i].Key) = 10 + Len(KeySuffix)
    /\ IsIsoText(SubSeq(puts[i].Key, 1, 10))
    /\ SubSeq(puts[i].Key, 11, Len(puts[i].Key)) = KeySuffix
    /\ Cardinality(TimeEntriesGets) = 1
    /\ \A g \in TimeEntriesGets :
         ParseIso(SubSeq(puts[i].Key, 1, 10)) = ParseIso(requests[g].params.start_date)
    /\ ParseIso(SubSeq(puts[i].Key, 1, 10)) = today
    /\ puts[i].Bucket = environ["S3_BUCKET_NAME"]
    /\ puts[i].ContentType = "application/jsonl"

C9_Witness ==
  pc = "done" /\ Len(puts) = 1 /\ clock # today /\ puts[1].Bucket = "bucket-b"

(***************************************************************************)
(* C10.  A returned result has statusCode 200 and a body that decodes to   *)
(* an object whose entries_uploaded is the number of entries the fetch     *)
(* returned, which is the number of records in the uploaded body, and      *)
(* whose s3_key is the key passed to put_object.                           *)
(***************************************************************************)
C10_ResultMatchesUpload ==
  result # NoResult =>
    /\ result.statusCode = 200
    /\ ResultBody.ok
    /\ DictKeys(ResultBody.val) = {K_entries_uploaded, K_s3_key}
    /\ Lookup(ResultBody.val, K_entries_uploaded) = JInt(Len(entries))
    /\ Len(entries) = Len(response)
    /\ puts # <<>>
    /\ Lookup(ResultBody.val, K_entries_uploaded) = JInt(RecordCount(puts[Len(puts)].Body))
    /\ Lookup(ResultBody.val, K_s3_key) = JStr(puts[Len(puts)].Key)

C10_Witness ==
  pc = "done" /\ result.statusCode = 200 /\ Len(entries) = 2 /\ Len(puts) = 1

(***************************************************************************)
(* C11.  Uploads are idempotent per day.  Every object S3 holds lies in    *)
(* the configured bucket under a key "<day>/time_entries.jsonl", and no    *)
(* two objects are of the same day.  An invocation that succeeded leaves   *)
(* exactly the objects that were there when it started, except that the    *)
(* object of its day now holds its body (replacing the one an earlier      *)
(* invocation of that day wrote); an invocation that failed, and one that  *)
(* has not uploaded yet, leave S3 as it was.                               *)
(***************************************************************************)
DayOfKey(k) == ParseIso(SubSeq(k[2], 1, 10))

ObjectsOfDay(st, d) == {k \in DOMAIN st : DayOfKey(k) = d}

C11_IdempotentPerDay ==
  /\ \A k \in DOMAIN store :
       /\ k[1] = environ["S3_BUCKET_NAME"]
       /\ Len(k[2]) = 10 + Len(KeySuffix)
       /\ IsIsoText(SubSeq(k[2], 1, 10))
       /\ SubSeq(k[2], 11, Len(k[2])) = KeySuffix
       /\ Cardinality(ObjectsOfDay(store, DayOfKey(k))) = 1
  /\ pc \in {"failed", "idle", "config", "client", "today", "construct",
             "fetch", "exit", "serialise", "put"} => store = store0
  /\ pc \in {"return", "done"} =>
       /\ Cardinality(ObjectsOfDay(store, today)) = 1
       /\ \A k \in ObjectsOfDay(store, today) :
            /\ store[k].Body = jsonl_body
            /\ DOMAIN store = DOMAIN store0 \cup {k}
            /\ ObjectsOfDay(store0, today) \subseteq {k}
            /\ \A j \in DOMAIN store0 \ {k} : store[j] = store0[j]

\* a successful invocation has replaced the object an earlier invocation of
\* the same day wrote, while the object of another day stayed
C11_Witness ==
  /\ pc = "done"
  /\ \E k \in DOMAIN store0 :
       DayOfKey(k) = today /\ store0[k].Body # store[k].Body
  /\ \E j \in DOMAIN store : DayOfKey(j) # today

(***************************************************************************)
(* C12.  No HTTP call is retried and a refused one ends the invocation.    *)
(* An invocation sends at most one login POST and at most one              *)
(* time-entries GET.  Once the login was refused, the invocation has       *)
(* failed with the HTTP error of the login, and the login is the only      *)
(* request it ever sent.  Once the GET was refused, the invocation is      *)
(* failing with the HTTP error of the fetch, the GET is the last request   *)
(* it sent, and nothing is uploaded or returned.                           *)
(***************************************************************************)
LoginPosts ==
  {i \in 1..Len(requests) :
     requests[i].method = "POST" /\ requests[i].url = AUTH_ENDPOINT}

C12_FailedCallIsTerminal ==
  /\ Cardinality(LoginPosts) <= 1
  /\ Cardinality(TimeEntriesGets) <= 1
  /\ Len(replies) = Len(requests)
  /\ LoginFailed =>
       /\ pc = "failed" /\ exc = "HTTPError"
       /\ requests = LoginRequests
       /\ TimeEntriesGets = {}
       /\ puts = <<>> /\ result = NoResult
  /\ FetchFailed =>
       /\ pc \in {"exit", "failed"} /\ exc = "HTTPError"
       /\ Len(requests) = 2 /\ LoginPosts = {1} /\ TimeEntriesGets = {2}
       /\ replies[1] = 200
       /\ puts = <<>> /\ result = NoResult

C12_Witness ==
  /\ pc = "failed" /\ exc = "HTTPError"
  /\ FetchFailed
  /\ session = "closed"

(***************************************************************************)
(* C13.  The session is released before the upload.  Every step that       *)
(* calls put_object starts and ends with the session closed; once the      *)
(* session is closed it is not reopened and no further request is sent in  *)
(* that invocation; and a step in which the upload fails ends with the     *)
(* session closed, closed exactly once, and with no result returned.       *)
(***************************************************************************)
C13_ClosedBeforeUpload ==
  [][/\ puts' # puts => session = "closed" /\ session' = "closed"
     /\ session = "closed" => session' # "open"
     /\ (session = "closed" /\ session' = "closed") => requests' = requests
     /\ (exc' = "ClientError" /\ exc # "ClientError") =>
          /\ puts' # puts
          /\ session' = "closed" /\ closes' = 1
          /\ pc' = "failed" /\ result' = NoResult]_vars

C13_Witness ==
  /\ pc = "failed" /\ exc = "ClientError"
  /\ session = "closed" /\ closes = 1
  /\ Len(puts) = 1 /\ Len(requests) = 2
  /\ result = NoResult

====
